---- MODULE Spec2Model ----
(***************************************************************************)
(* The meta-training loop of ToucanTTS                                     *)
(* (TTSTrainingInterfaces/ToucanTTS/toucantts_meta_train_loop.py,          *)
(* train_loop) as a state machine.                                         *)
(*                                                                         *)
(* Abstractions.  A parameter set (model, optimizer, scheduler state) is   *)
(* an integer: a fresh one is 0, every update adds 1, the mean of several  *)
(* parameter sets is their integer mean.  A data iterator is the number of *)
(* batches it still holds.  A component loss is the finite value 1, NaN or *)
(* Inf.  A checkpoint file of the save directory is named by its step      *)
(* number n (checkpoint_n.pt).                                             *)
(*                                                                         *)
(* The second part models the network the loop trains                      *)
(* (TTSTrainingInterfaces/ToucanTTS/ToucanTTS.py) and the architecture     *)
(* used for inference                                                      *)
(* (TTSInferenceInterfaces/InferenceArchitectures/InferenceToucanTTS.py):  *)
(* the construction of a model and one call of its _forward.  A tensor is  *)
(* modelled by what the claims are about: the columns of its feature axis, *)
(* the per-token values of a curve, or the kind of an embedding.           *)
(***************************************************************************)
EXTENDS Integers, Sequences, FiniteSets, TLC

VARIABLES
    pc,                    \* position of train_loop: "setup", "loop", "checkpoint",
                           \* "done", "returned" (line 99), "crashed" (uncaught exception)
    steps_requested,       \* the argument steps as passed by the caller
    steps,                 \* the local steps (re-assigned in lines 54-57)
    steps_per_checkpoint,
    batch_size,
    datasets,              \* sequence of dataset sizes, one per task
    resume,
    fine_tune,
    path_to_checkpoint,    \* NoPath or a path
    save_directory,        \* checkpoint number -> contents of checkpoint_n.pt
    best,                  \* <<contents of best.pt>>, or <<>> while there is none
    check_dict,            \* <<the checkpoint loaded in line 91>>, or <<>>
    net,                   \* parameters of the live model
    optimizer,
    scheduler,
    steps_run_previously,
    step_counter,          \* index of the iteration in progress (next value of the range)
    train_iters,           \* task -> batches left in its iterator
    batches,               \* tasks the batches of this iteration were drawn from, in order
    losses,                \* the five losses every forward pass returns when they are
                           \* fixed in advance (SpecLoss); <<>> when each forward pass
                           \* is free to return any losses (Spec)
    train_loss,            \* the summed loss of this iteration
    losses_total,          \* the loss accumulators: steps whose losses they hold
    written,               \* <<[file, contents] torch.save wrote in this iteration>>, or <<>>
    plot,                  \* outcome of this iteration's progress plot, or None
    checkpoint_paths,      \* checkpoints averaged by this iteration
    error,                 \* the exception that ended the run, or None
    mode,                  \* net.training now, as it was in the last forward pass of
                           \* a step and as it was when torch.save last took the state
    \* the process running train_loop
    stops,                 \* how often the process was stopped from outside so far
    completed,             \* when the process was last stopped: the highest step whose
                           \* optimizer update had completed (-1 without one)
    torn,                  \* <<[file, existed]>>: the checkpoint file a stop left
                           \* partially written, and whether it existed before; else <<>>
    \* the network
    architecture,          \* "training" (ToucanTTS.py) or "inference" (InferenceToucanTTS.py)
    config,                \* the constructor arguments the claims are about
    built,                 \* "no", "yes", or the exception __init__ raised
    stored,                \* <<self.config of the model built>>, or <<>> without one
    args,                  \* the arguments of the call of _forward
    returned               \* <<what the call of _forward did>>, or <<>> before it

vars == <<pc, steps_requested, steps, steps_per_checkpoint, batch_size, datasets,
          resume, fine_tune, path_to_checkpoint, save_directory, best, check_dict,
          net, optimizer, scheduler, steps_run_previously, step_counter,
          train_iters, batches, losses, train_loss, losses_total, written, plot,
          checkpoint_paths, error, mode, stops, completed, torn,
          architecture, config, built, stored, args, returned>>

loop_vars == <<pc, steps_requested, steps, steps_per_checkpoint, batch_size, datasets,
               resume, fine_tune, path_to_checkpoint, save_directory, best, check_dict,
               net, optimizer, scheduler, steps_run_previously, step_counter,
               train_iters, batches, losses, train_loss, losses_total, written, plot,
               checkpoint_paths, error, mode>>
stop_vars == <<stops, completed, torn>>
call_vars == <<architecture, config, built, stored, args, returned>>

config_vars == <<steps_requested, steps_per_checkpoint, batch_size, datasets,
                 resume, fine_tune>>

None == "None"          \* a missing string-valued result
NoPath == <<>>          \* path_to_checkpoint is None

(***************************************************************************)
(* Bounds of the model.                                                    *)
(***************************************************************************)
MaxSteps == 5      \* largest step target
MaxCkpt == 5       \* largest steps_per_checkpoint
MaxTasks == 2      \* largest number of datasets
MaxData == 2       \* largest dataset size
MaxBatch == 3      \* largest batch_size
MaxPrev == 2       \* most checkpoints an earlier run left in the save directory
MaxStops == 2      \* most external stops of the training process
MaxTokens == 2     \* longest text
MaxDur == 2        \* largest duration of a token
MaxCodebooks == 3  \* largest num_codebooks

(***************************************************************************)
(* Program constants.                                                      *)
(***************************************************************************)
Keep == 5          \* delete_old_checkpoints(save_directory, keep=5)
NRecent == 2       \* get_n_recent_checkpoints_paths(..., n=2)
SplitSize == 8     \* torch.split(gold_speech, split_size_or_sections=8, dim=-1)

(***************************************************************************)
(* Floating-point values: <<"fin", v>>, <<"nan", 0>> or <<"inf", 0>>.      *)
(***************************************************************************)
NaN == <<"nan", 0>>
Inf == <<"inf", 0>>
Fin(v) == <<"fin", v>>

LossValues == {Fin(1), NaN, Inf}
\* (regression_loss, glow_loss, duration_loss, pitch_loss, energy_loss)
LossVectors == [1..5 -> LossValues]

isnan(x) == x[1] = "nan"

\* x + y of two floats
FAdd(x, y) ==
    IF x[1] = "nan" \/ y[1] = "nan" THEN NaN
    ELSE IF x[1] = "inf" \/ y[1] = "inf" THEN Inf
    ELSE Fin(x[2] + y[2])

\* train_loss = 0.0 is a Python float; adding a loss to it gives a tensor.
InitialTrainLoss == [tensor |-> FALSE, val |-> Fin(0)]

\* if not torch.isnan(loss): train_loss = train_loss + loss
AddLoss(tl, loss) ==
    IF ~isnan(loss) THEN [tensor |-> TRUE, val |-> FAdd(tl.val, loss)] ELSE tl

\* Lines 129-159: the summed loss of the five component losses l.
TrainLoss(l) ==
    AddLoss(AddLoss(AddLoss(AddLoss(AddLoss(InitialTrainLoss, l[1]), l[2]), l[3]), l[4]), l[5])

\* train_loss.backward(): a Python float has no backward.
BackwardRaises(tl) == ~tl.tensor

(***************************************************************************)
(* Lines 54-57: the loop bound.                                            *)
(***************************************************************************)
AdjustedSteps(s, c) ==
    IF s % c = 0 THEN s + 1 ELSE s + ((c + 1) - (s % c))

(***************************************************************************)
(* Lines 106-117: filling the batch list.                                  *)
(***************************************************************************)
\* random.sample(list(range(n)), n): the orders it can return
SampledOrders(n) == {p \in [1..n -> 1..n] : \A i, j \in 1..n : p[i] = p[j] => i = j}

\* the for loop without the test of line 109
ForPassUnguarded(b, order, size) == b \o order

\* the for loop over one sampled order
RECURSIVE ForPass(_, _, _)
ForPass(b, order, size) ==
    IF order = <<>> THEN b
    ELSE ForPass(IF Len(b) < size THEN Append(b, Head(order)) ELSE b, Tail(order), size)

\* the while loop; orders[k] is the order sampled in its k-th iteration
RECURSIVE FillBatches(_, _, _)
FillBatches(b, orders, size) ==
    IF Len(b) < size /\ orders # <<>>
    THEN FillBatches(ForPass(b, Head(orders), size), Tail(orders), size)
    ELSE b

\* iterations of the while loop that fill size batches from n tasks
NumPasses(n, size) == (size + n - 1) \div n

\* the handler of lines 114-117 re-creating the iterator of every task
NextBatchRecreatesAll(iters, index, data) ==
    IF iters[index] = 0
    THEN [i \in DOMAIN iters |-> IF i = index THEN data[i] - 1 ELSE data[i]]
    ELSE [iters EXCEPT ![index] = iters[index] - 1]

\* next(train_iters[index]), with the StopIteration handler of lines 114-117
NextBatch(iters, index, data) ==
    IF iters[index] = 0
    THEN [iters EXCEPT ![index] = data[index] - 1]
    ELSE [iters EXCEPT ![index] = iters[index] - 1]

RECURSIVE DrawAll(_, _, _)
DrawAll(iters, drawn, data) ==
    IF drawn = <<>> THEN iters
    ELSE DrawAll(NextBatch(iters, Head(drawn), data), Tail(drawn), data)

(***************************************************************************)
(* Checkpoint files.                                                       *)
(***************************************************************************)
\* Lines 184-191: the record torch.save writes
Checkpoint(m, o, s, n) ==
    [model |-> m, optimizer |-> o, scheduler |-> s, step_counter |-> n,
     default_emb |-> "default_embedding", config |-> "net.config"]

\* torch.save(..., "checkpoint_{n}.pt")
Save(dir, n, rec) == [k \in DOMAIN dir \cup {n} |-> IF k = n THEN rec ELSE dir[k]]

\* the n largest members of S
Recent(S, n) == {x \in S : Cardinality({y \in S : y > x}) < n}

\* Utility.utils.delete_old_checkpoints: the keep most recent checkpoints stay
delete_old_checkpoints(dir, keep) == [k \in Recent(DOMAIN dir, keep) |-> dir[k]]

\* Utility.utils.get_most_recent_checkpoint: the highest checkpoint, None without one
get_most_recent_checkpoint(dir) ==
    IF DOMAIN dir = {} THEN NoPath
    ELSE <<"save_directory", CHOOSE n \in DOMAIN dir : \A k \in DOMAIN dir : k <= n>>

RECURSIVE Descending(_)
Descending(S) ==
    IF S = {} THEN <<>>
    ELSE LET top == CHOOSE n \in S : \A k \in S : k <= n
         IN  <<top>> \o Descending(S \ {top})

\* run_weight_averaging.get_n_recent_checkpoints_paths: the n most recent
\* checkpoints, most recent first (all of them when there are fewer than n)
get_n_recent_checkpoints_paths(dir, n) == Descending(Recent(DOMAIN dir, n))

RECURSIVE SumModels(_, _)
SumModels(dir, paths) ==
    IF paths = <<>> THEN 0 ELSE dir[Head(paths)].model + SumModels(dir, Tail(paths))

\* run_weight_averaging.average_checkpoints and save_model_for_use: best.pt
average_checkpoints(dir, paths) ==
    [model |-> SumModels(dir, paths) \div Len(paths),
     default_emb |-> "default_embedding", config |-> "net.config"]

\* a checkpoint file from outside the save directory, saved at step n of another run
ExternalCheckpoint(n) == Checkpoint(0 - (n + 1), n + 1, n + 1, n)

\* the save directory an earlier fresh run with the same steps_per_checkpoint
\* left after writing prev checkpoints
PreviousRun(prev, c) ==
    [n \in {k * c : k \in 1..prev} |-> Checkpoint(n + 1, n + 1, n + 1, n)]

\* torch.load(path)
torch_load(path, dir) ==
    IF path[1] = "external" THEN ExternalCheckpoint(path[2]) ELSE dir[path[2]]

\* line 173 without "and step_counter != 0"
IsCheckpointStepWithZero(n, c) == n % c = 0

\* Line 173: the iterations that run the checkpoint block
IsCheckpointStep(n, c) == n % c = 0 /\ n # 0

\* line 225 never true
NeverInFinalFifth(n, s) == FALSE

\* Line 225: step_counter > steps * 4 / 5
InFinalFifth(n, s) == 5 * n > 4 * s

\* lines 88-89 without the resume test
IgnoresResume(res, path, dir) == path

\* Lines 88-89: the checkpoint to load
CheckpointToLoad(res, path, dir) ==
    IF res THEN get_most_recent_checkpoint(dir) ELSE path

\* line 93 without the fine_tune test
RestoresAlways(ft) == TRUE

\* Line 93: optimizer, scheduler and step counter are restored unless fine-tuning
RestoresTrainingState(ft) == ~ft

\* the loop starting behind the restored step counter
SkipsRestoredStep(previously) == previously + 1

\* Line 105: range(steps_run_previously, steps) starts with the restored
\* step counter
FirstStep(previously) == previously

\* Line 97: the loaded checkpoint already reaches the step target
AlreadyReached(previously, s) == previously > s

PlotOutcomes == {"ok", "IndexError", "OtherError"}

\* net.training of the model passed to train_loop; no step and no torch.save yet
ModeOf(training) == [training |-> training, step |-> <<>>, snapshot |-> <<>>]

\* Lines 101 and 233: net.train()
net_train(training) == TRUE

\* line 177 left out
SkipsEval(training) == training

\* Line 177: net.eval()
net_eval(training) == FALSE

\* net.training after plot_progress_spec_toucantts (Utility.utils): the mode it
\* was called in, or the one a call of net.inference left, which sets eval
\* mode, calls _forward and sets training mode (ToucanTTS.py lines 434-453)
PlotLeaves(outcome, training) == {training, FALSE, TRUE}

\* lines 219-223 left out
KeepTotals(totals) == totals

\* Lines 219-223: the five accumulators are set to new empty lists
ResetTotals(totals) == <<>>

(***************************************************************************)
(* Initial states: the call of train_loop.                                 *)
(***************************************************************************)
\* the process has not been stopped
NeverStopped ==
    /\ stops = 0
    /\ completed = 0 - 1
    /\ torn = <<>>

\* no model call is looked at
NoCall ==
    /\ architecture = "training"
    /\ config = <<>>
    /\ built = "yes"
    /\ stored = <<>>
    /\ args = <<>>
    /\ returned = <<>>

Fresh ==
    /\ pc = "setup"
    /\ steps = steps_requested
    /\ best = <<>>
    /\ check_dict = <<>>
    /\ net = 0
    /\ optimizer = 0
    /\ scheduler = 0
    /\ steps_run_previously = 0
    /\ step_counter = 0
    /\ train_iters = <<>>
    /\ batches = <<>>
    /\ train_loss = InitialTrainLoss
    /\ losses_total = <<>>
    /\ written = <<>>
    /\ plot = None
    /\ checkpoint_paths = <<>>
    /\ error = None

\* one task holding one sample, batch size 1: every schedule and every way to
\* start from a checkpoint
ScheduleInputs ==
    /\ steps_requested \in 1..MaxSteps
    /\ steps_per_checkpoint \in 1..MaxCkpt
    /\ datasets = <<1>>
    /\ batch_size = 1
    /\ resume \in BOOLEAN
    /\ fine_tune \in BOOLEAN
    /\ \E prev \in 0..MaxPrev : save_directory = PreviousRun(prev, steps_per_checkpoint)
    /\ path_to_checkpoint \in
         {NoPath, <<"external", (MaxPrev + 1) * steps_per_checkpoint>>}
           \cup {<<"save_directory", n>> : n \in DOMAIN save_directory}

\* a fresh two-step run: every number of tasks, dataset size and batch size
TaskInputs ==
    /\ steps_requested = 1
    /\ steps_per_checkpoint = 1
    /\ datasets \in UNION {[1..n -> 1..MaxData] : n \in 1..MaxTasks}
    /\ batch_size \in 1..MaxBatch
    /\ resume = FALSE
    /\ fine_tune = FALSE
    /\ path_to_checkpoint = NoPath
    /\ save_directory = PreviousRun(0, steps_per_checkpoint)

Init ==
    /\ ScheduleInputs \/ TaskInputs
    /\ losses = <<>>
    /\ mode = ModeOf(TRUE)
    /\ Fresh
    /\ NeverStopped
    /\ NoCall

(***************************************************************************)
(* Lines 52-101: everything before the loop.                               *)
(***************************************************************************)
Setup ==
    /\ pc = "setup"
    /\ steps' = AdjustedSteps(steps, steps_per_checkpoint)
    /\ train_iters' = [i \in 1..Len(datasets) |-> datasets[i]]
    /\ LET path == CheckpointToLoad(resume, path_to_checkpoint, save_directory)
           loaded == path # NoPath
           restore == loaded /\ RestoresTrainingState(fine_tune)
       IN  /\ path_to_checkpoint' = path
           /\ check_dict' = IF loaded THEN <<torch_load(path, save_directory)>> ELSE <<>>
           /\ net' = IF loaded THEN torch_load(path, save_directory).model ELSE net
           /\ optimizer' = IF restore THEN torch_load(path, save_directory).optimizer ELSE 0
           /\ scheduler' = IF restore THEN torch_load(path, save_directory).scheduler ELSE 0
           /\ steps_run_previously' =
                IF restore THEN torch_load(path, save_directory).step_counter ELSE 0
           /\ step_counter' = FirstStep(steps_run_previously')
           /\ IF loaded /\ AlreadyReached(steps_run_previously', steps')
              THEN pc' = "returned" /\ UNCHANGED mode
              ELSE /\ pc' = "loop"
                   /\ mode' = [mode EXCEPT !.training = net_train(mode.training)]
    /\ UNCHANGED <<config_vars, save_directory, best, batches, losses, train_loss,
                   losses_total, written, plot, checkpoint_paths, error>>
    /\ UNCHANGED <<stop_vars, call_vars>>

(***************************************************************************)
(* Lines 105-171: one iteration up to the scheduler step, the forward pass *)
(* returning the losses l.                                                 *)
(***************************************************************************)
Step(l) ==
    /\ pc = "loop"
    /\ step_counter < steps
    /\ \E orders \in [1..NumPasses(Len(datasets), batch_size)
                        -> SampledOrders(Len(datasets))] :
          /\ batches' = FillBatches(<<>>, orders, batch_size)
          /\ train_iters' = DrawAll(train_iters, batches', datasets)
    /\ train_loss' = TrainLoss(l)
    /\ mode' = [mode EXCEPT !.step = <<mode.training>>]
    /\ losses_total' = Append(losses_total, step_counter)
    /\ written' = <<>>
    /\ plot' = None
    /\ checkpoint_paths' = <<>>
    /\ IF BackwardRaises(train_loss')
       THEN /\ pc' = "crashed"
            /\ error' = "AttributeError"
            /\ UNCHANGED <<net, optimizer, scheduler>>
       ELSE /\ pc' = "checkpoint"
            /\ net' = net + 1
            /\ optimizer' = optimizer + 1
            /\ scheduler' = scheduler + 1
            /\ UNCHANGED error
    /\ UNCHANGED <<config_vars, steps, path_to_checkpoint, save_directory, best,
                   check_dict, steps_run_previously, step_counter, losses>>
    /\ UNCHANGED <<stop_vars, call_vars>>

TrainStep == \E l \in LossVectors : Step(l)

(***************************************************************************)
(* Lines 173-233: the rest of the iteration.  At its end batches and       *)
(* train_loss take the values lines 106 and 129 give them before they are  *)
(* read again; written, plot and checkpoint_paths describe the block until *)
(* the next iteration starts.                                              *)
(***************************************************************************)
\* Lines 184-193: the save directory after torch.save and delete_old_checkpoints
SaveCheckpoint ==
    delete_old_checkpoints(
        Save(save_directory, step_counter,
             Checkpoint(net, optimizer, scheduler, step_counter)),
        Keep)

\* Line 227: the checkpoints to average
AveragedAllKept(dir) == get_n_recent_checkpoints_paths(dir, Keep)
AveragedPaths(dir) == get_n_recent_checkpoints_paths(dir, NRecent)

CheckpointBlock ==
    /\ pc = "checkpoint"
    /\ IF IsCheckpointStep(step_counter, steps_per_checkpoint)
       THEN /\ save_directory' = SaveCheckpoint
            /\ written' = <<[file |-> step_counter,
                              contents |-> Checkpoint(net, optimizer, scheduler,
                                                      step_counter)]>>
            /\ \E outcome \in PlotOutcomes :
                 /\ plot' = outcome
                 /\ IF outcome = "OtherError"
                    THEN \* only IndexError is caught (line 216)
                         /\ pc' = "crashed"
                         /\ error' = "plot_progress_spec_toucantts"
                         /\ \E left \in PlotLeaves(outcome, net_eval(mode.training)) :
                               mode' = [mode EXCEPT
                                           !.training = left,
                                           !.snapshot = <<net_eval(mode.training)>>]
                         /\ UNCHANGED <<best, net, step_counter, batches, train_loss,
                                        losses_total, checkpoint_paths>>
                    ELSE /\ losses_total' = ResetTotals(losses_total)
                         /\ \E left \in PlotLeaves(outcome, net_eval(mode.training)) :
                               mode' = [mode EXCEPT
                                           !.training = net_train(left),
                                           !.snapshot = <<net_eval(mode.training)>>]
                         /\ IF InFinalFifth(step_counter, steps)
                            THEN /\ checkpoint_paths' = AveragedPaths(save_directory')
                                 /\ best' = <<average_checkpoints(save_directory',
                                                                  checkpoint_paths')>>
                                 /\ net' = best'[1].model
                            ELSE UNCHANGED <<checkpoint_paths, best, net>>
                         /\ pc' = "loop"
                         /\ step_counter' = step_counter + 1
                         /\ batches' = <<>>
                         /\ train_loss' = InitialTrainLoss
                         /\ UNCHANGED error
       ELSE /\ pc' = "loop"
            /\ step_counter' = step_counter + 1
            /\ batches' = <<>>
            /\ train_loss' = InitialTrainLoss
            /\ UNCHANGED <<save_directory, written, plot, losses_total,
                           checkpoint_paths, best, net, error, mode>>
    /\ UNCHANGED <<config_vars, steps, path_to_checkpoint, check_dict, optimizer,
                   scheduler, steps_run_previously, train_iters, losses>>
    /\ UNCHANGED <<stop_vars, call_vars>>

\* Line 105: the range is exhausted and train_loop returns
Finish ==
    /\ pc = "loop"
    /\ step_counter >= steps
    /\ pc' = "done"
    /\ UNCHANGED <<config_vars, steps, path_to_checkpoint, save_directory, best,
                   check_dict, net, optimizer, scheduler, steps_run_previously,
                   step_counter, train_iters, batches, losses, train_loss,
                   losses_total, written, plot, checkpoint_paths, error, mode>>
    /\ UNCHANGED <<stop_vars, call_vars>>

Next == Setup \/ TrainStep \/ CheckpointBlock \/ Finish

Spec == Init /\ [][Next]_vars

(***************************************************************************)
(* The loop with the forward pass fixed in advance: every iteration of a   *)
(* fresh two-step run returns the same five losses.                        *)
(***************************************************************************)
InitLoss ==
    /\ steps_requested = 1
    /\ steps_per_checkpoint = 1
    /\ datasets = <<1>>
    /\ batch_size = 1
    /\ resume = FALSE
    /\ fine_tune = FALSE
    /\ path_to_checkpoint = NoPath
    /\ save_directory = PreviousRun(0, steps_per_checkpoint)
    /\ losses \in LossVectors
    /\ mode = ModeOf(TRUE)
    /\ Fresh
    /\ NeverStopped
    /\ NoCall

TrainStepFixed == losses # <<>> /\ Step(losses)

NextLoss == Setup \/ TrainStepFixed \/ CheckpointBlock \/ Finish

SpecLoss == InitLoss /\ [][NextLoss]_vars

(***************************************************************************)
(* The process running train_loop is stopped from outside and the training *)
(* is started again with resume set.  The forward pass returns finite      *)
(* losses.  A stop between two actions leaves the files as they are; a     *)
(* stop while torch.save writes (lines 184-192) leaves that file           *)
(* incomplete.                                                             *)
(***************************************************************************)
Max(a, b) == IF a >= b THEN a ELSE b

\* Lines 105-171: the last iteration of this call whose optimizer.step() has
\* returned, -1 without one
LastUpdated ==
    IF pc = "checkpoint" THEN step_counter
    ELSE IF pc = "loop" /\ step_counter > steps_run_previously THEN step_counter - 1
    ELSE 0 - 1

AllFinite == [i \in 1..5 |-> Fin(1)]

InitStop ==
    /\ steps_requested \in 1..MaxSteps
    /\ steps_per_checkpoint \in 1..MaxCkpt
    /\ datasets = <<1>>
    /\ batch_size = 1
    /\ resume = FALSE
    /\ fine_tune = FALSE
    /\ path_to_checkpoint = NoPath
    /\ save_directory = PreviousRun(0, steps_per_checkpoint)
    /\ losses = AllFinite
    /\ mode = ModeOf(TRUE)
    /\ Fresh
    /\ NeverStopped
    /\ NoCall

\* the process is stopped between two actions
ExternalStop ==
    /\ pc \in {"setup", "loop", "checkpoint"}
    /\ stops < MaxStops
    /\ pc' = "stopped"
    /\ stops' = stops + 1
    /\ completed' = Max(completed, LastUpdated)
    /\ UNCHANGED <<config_vars, steps, path_to_checkpoint, save_directory, best,
                   check_dict, net, optimizer, scheduler, steps_run_previously,
                   step_counter, train_iters, batches, losses, train_loss,
                   losses_total, written, plot, checkpoint_paths, error, mode, torn>>
    /\ UNCHANGED call_vars

\* the process is stopped while torch.save (lines 184-192) writes
StopDuringSave ==
    /\ pc = "checkpoint"
    /\ IsCheckpointStep(step_counter, steps_per_checkpoint)
    /\ stops < MaxStops
    /\ pc' = "stopped"
    /\ stops' = stops + 1
    /\ completed' = Max(completed, LastUpdated)
    /\ torn' = <<[file |-> step_counter,
                  existed |-> step_counter \in DOMAIN save_directory]>>
    /\ save_directory' = Save(save_directory, step_counter,
                              Checkpoint(net, optimizer, scheduler, step_counter))
    /\ UNCHANGED <<config_vars, steps, path_to_checkpoint, best,
                   check_dict, net, optimizer, scheduler, steps_run_previously,
                   step_counter, train_iters, batches, losses, train_loss,
                   losses_total, written, plot, checkpoint_paths, error, mode>>
    /\ UNCHANGED call_vars

\* train_loop is called again with resume=True on the same save directory; an
\* incomplete file is the most recent checkpoint and torch.load (line 91)
\* raises on it
Restart ==
    /\ pc = "stopped"
    /\ resume' = TRUE
    /\ fine_tune' = FALSE
    /\ IF torn # <<>>
       THEN /\ pc' = "crashed"
            /\ error' = "torch.load"
            /\ UNCHANGED <<steps, path_to_checkpoint, check_dict, net, optimizer,
                           scheduler, steps_run_previously, step_counter, train_iters,
                           batches, train_loss, losses_total, written, plot,
                           checkpoint_paths, mode>>
       ELSE /\ pc' = "setup"
            /\ steps' = steps_requested
            /\ path_to_checkpoint' = NoPath
            /\ check_dict' = <<>>
            /\ net' = 0
            /\ optimizer' = 0
            /\ scheduler' = 0
            /\ steps_run_previously' = 0
            /\ step_counter' = 0
            /\ train_iters' = <<>>
            /\ batches' = <<>>
            /\ train_loss' = InitialTrainLoss
            /\ losses_total' = <<>>
            /\ written' = <<>>
            /\ plot' = None
            /\ checkpoint_paths' = <<>>
            /\ error' = None
            /\ mode' = ModeOf(TRUE)
    /\ UNCHANGED <<steps_requested, steps_per_checkpoint, batch_size, datasets,
                   save_directory, best, losses, stop_vars, call_vars>>

NextStop ==
    Setup \/ TrainStepFixed \/ CheckpointBlock \/ Finish
        \/ ExternalStop \/ StopDuringSave \/ Restart

SpecStop == InitStop /\ [][NextStop]_vars

(***************************************************************************)
(* Starting from the checkpoints of an earlier run whose                   *)
(* steps_per_checkpoint was another one: the save directory holds          *)
(* checkpoints at the multiples of that earlier interval.  The forward     *)
(* pass returns finite losses, or NaN for all five.                        *)
(***************************************************************************)
AllNaN == [i \in 1..5 |-> NaN]

InitResume ==
    /\ steps_requested \in 1..MaxSteps
    /\ steps_per_checkpoint \in 1..MaxCkpt
    /\ datasets = <<1>>
    /\ batch_size = 1
    /\ resume \in BOOLEAN
    /\ fine_tune \in BOOLEAN
    /\ \E prev \in 1..MaxPrev, earlier \in 1..MaxCkpt :
          save_directory = PreviousRun(prev, earlier)
    /\ path_to_checkpoint \in
          {NoPath} \cup {<<"save_directory", n>> : n \in DOMAIN save_directory}
    /\ losses \in {AllFinite, AllNaN}
    /\ \E training \in BOOLEAN : mode = ModeOf(training)
    /\ Fresh
    /\ NeverStopped
    /\ NoCall

SpecResume == InitResume /\ [][NextLoss]_vars

(***************************************************************************)
(* The network: ToucanTTS (ToucanTTS.py, "training") and the architecture  *)
(* used for inference (InferenceToucanTTS.py, "inference").                *)
(***************************************************************************)
\* the entries of a phoneme vector that _forward looks at
\* (get_feature_to_index_lookup()[...])
Features == {"voiced", "phoneme", "word-boundary", "silence"}

PhonemeVector(v, p, w, s) ==
    [f \in Features |->
        CASE f = "voiced" -> v
          [] f = "phoneme" -> p
          [] f = "word-boundary" -> w
          [] OTHER -> s]

Vowel == PhonemeVector(1, 1, 0, 0)
Consonant == PhonemeVector(0, 1, 0, 0)          \* an unvoiced phoneme
WordBoundary == PhonemeVector(0, 0, 1, 0)
Pause == PhonemeVector(0, 0, 0, 1)
TokenKinds == {Vowel, Consonant, WordBoundary, Pause}

\* the texts of up to n tokens
Texts(n) == UNION {[1..k -> TokenKinds] : k \in 1..n}

\* a real number n/d (d > 0); NotANumber is NaN
Real(n, d) == <<n, d>>
NotANumber == <<0, 0>>
IsZero(x) == x[2] # 0 /\ x[1] = 0
Reals(ints) == [i \in DOMAIN ints |-> Real(ints[i], 1)]

\* the values of the scale factors: 0.5, 1.0 and 2.0, and 0.0 for the duration;
\* no factor is checked by the caller of _forward, so -1.0 can be passed too
Scales == {Real(1, 2), Real(1, 1), Real(2, 1)}
DurationScales == Scales \cup {Real(0, 1)}
ScaleFactors == DurationScales \cup {Real(0 - 1, 1)}
IsOne(f) == f[1] = f[2]

\* what the duration predictor and the pitch and energy predictors can return
\* for a token
DurationValues == 0..MaxDur
CurveValues == {0 - 1, 0, 2}

\* an utterance embedding: its direction and its L2 norm
Embeddings == {[direction |-> "a", norm |-> 0], [direction |-> "a", norm |-> 1],
               [direction |-> "b", norm |-> 1], [direction |-> "b", norm |-> 2]}

\* torch.nn.functional.normalize: x / max(|x|, eps)
normalize(e) == [direction |-> e.direction, norm |-> IF e.norm = 0 THEN 0 ELSE 1]

\* torch.round(n / d) for n >= 0: halves go to the even neighbour
RoundPositive(n, d) ==
    LET q == n \div d
        r == n % d
    IN  IF 2 * r < d THEN q
        ELSE IF 2 * r > d THEN q + 1
        ELSE IF q % 2 = 0 THEN q ELSE q + 1

\* torch.round(n / d), d > 0
Round(n, d) == IF n < 0 THEN 0 - RoundPositive(0 - n, d) ELSE RoundPositive(n, d)

\* torch.round(duration.float() * factor).long()
ScaleDuration(duration, factor) == Round(duration * factor[1], factor[2])

\* Layers.LengthRegulator: token i is repeated durations[i] times
RECURSIVE Repeat(_, _)
Repeat(x, n) == IF n <= 0 THEN <<>> ELSE <<x>> \o Repeat(x, n - 1)

RECURSIVE Regulate(_, _)
Regulate(durations, i) ==
    IF i > Len(durations) THEN <<>>
    ELSE Repeat(i, durations[i]) \o Regulate(durations, i + 1)

length_regulator(durations) == Regulate(durations, 1)

\* the duration of a word boundary left as it is
KeepAtWordBoundary(phoneme_vector, duration) == duration

\* ToucanTTS.py lines 345-346, InferenceToucanTTS.py lines 247-248
ZeroAtWordBoundary(phoneme_vector, duration) ==
    IF phoneme_vector["word-boundary"] = 1 THEN 0 ELSE duration

\* InferenceToucanTTS.py lines 243-246
ZeroIfUnvoiced(phoneme_vector, pitch) ==
    IF phoneme_vector["voiced"] = 0 THEN 0 ELSE pitch

ZeroIfNoPhoneme(phoneme_vector, energy) ==
    IF phoneme_vector["phoneme"] = 0 THEN 0 ELSE energy

\* InferenceToucanTTS.py lines 249-250
ScalePause(phoneme_vector, duration, pause_duration_scaling_factor) ==
    IF phoneme_vector["silence"] = 1 /\ ~IsOne(pause_duration_scaling_factor)
    THEN ScaleDuration(duration, pause_duration_scaling_factor)
    ELSE duration

RECURSIVE SumOf(_, _)
SumOf(sequence, indices) ==
    IF indices = {} THEN 0
    ELSE LET i == CHOOSE j \in indices : TRUE
         IN  sequence[i] + SumOf(sequence, indices \ {i})

\* (x - average) * scale + average as the fraction the transform computes for
\* an entry x of a curve with c non-zero entries that sum to S
Scaled(x, c, S, scale) ==
    Real(c * x * scale[1] - S * scale[1] + S * scale[2], c * scale[2])

\* _scale_variance without the early return of lines 366-367
ScaleAlways(sequence, scale) ==
    LET nonzero == {i \in DOMAIN sequence : sequence[i] # 0}
        c == Cardinality(nonzero)
        S == SumOf(sequence, nonzero)
    IN  IF c = 0 THEN [i \in DOMAIN sequence |-> NotANumber]
        ELSE [i \in DOMAIN sequence |->
                 LET n == c * sequence[i] * scale[1] - S * scale[1] + S * scale[2]
                     d == c * scale[2]
                 IN  IF n < 0 THEN Real(0, 1) ELSE Real(n, d)]

\* _scale_variance without lines 368, 369 and 371: the entries are multiplied
\* by scale
ScaleWithoutCentering(sequence, scale) ==
    IF IsOne(scale) THEN Reals(sequence)
    ELSE [i \in DOMAIN sequence |->
             IF sequence[i] * scale[1] < 0 THEN Real(0, 1)
             ELSE Real(sequence[i] * scale[1], scale[2])]

\* InferenceToucanTTS.py lines 365-375, on a curve of integers:
\* (x - average) * scale + average with average = S / c and scale = p / q is
\* (c*x*p - S*p + S*q) / (c*q); the mean of an empty selection is NaN
scale_variance(sequence, scale) ==
    IF IsOne(scale) THEN Reals(sequence)
    ELSE LET nonzero == {i \in DOMAIN sequence : sequence[i] # 0}
             c == Cardinality(nonzero)
             S == SumOf(sequence, nonzero)
         IN  IF c = 0 THEN [i \in DOMAIN sequence |-> NotANumber]
             ELSE [i \in DOMAIN sequence |->
                      IF Scaled(sequence[i], c, S, scale)[1] < 0 THEN Real(0, 1)
                      ELSE Scaled(sequence[i], c, S, scale)]

\* the columns (feature axis) of a tensor: n columns of one kind, numbered from
\* first
Columns(kind, first, n) == [i \in 1..n |-> <<kind, first + i - 1>>]

\* the output of the decoder
decoded_speech(cfg) == Columns("decoded", 0, cfg.attention_dimension)

\* the gold frames: codebook k holds the columns k*codebook_dim up to
\* (k+1)*codebook_dim - 1
gold_speech(cfg) == Columns("gold", 0, cfg.num_codebooks * cfg.codebook_dim)

\* torch.split(tensor, split_size_or_sections=size, dim=-1)
RECURSIVE split(_, _)
split(tensor, size) ==
    IF Len(tensor) <= size THEN <<tensor>>
    ELSE <<SubSeq(tensor, 1, size)>> \o split(SubSeq(tensor, size + 1, Len(tensor)), size)

\* torch.stack needs tensors of one shape
Stackable(chunks) == \A i, j \in DOMAIN chunks : Len(chunks[i]) = Len(chunks[j])

\* ToucanTTS.py line 231: the input width head was built with
HeadWidth(cfg, head) == cfg.attention_dimension + head * cfg.codebook_dim

\* ToucanTTS.py lines 382-386 (training mode), from head on: the inputs the
\* heads are called with, and the exception that ends the loop
RECURSIVE TeacherForcedHeads(_, _, _, _, _)
TeacherForcedHeads(cfg, gold_frames_per_codebook, head, gold_codec_frames, inputs) ==
    IF head = cfg.num_codebooks THEN [error |-> None, head_inputs |-> inputs]
    ELSE IF Len(gold_codec_frames) # HeadWidth(cfg, head)
         THEN [error |-> "RuntimeError", head_inputs |-> Append(inputs, gold_codec_frames)]
    ELSE IF head + 1 > Len(gold_frames_per_codebook)
         THEN [error |-> "IndexError", head_inputs |-> Append(inputs, gold_codec_frames)]
    ELSE TeacherForcedHeads(cfg, gold_frames_per_codebook, head + 1,
                            gold_codec_frames \o gold_frames_per_codebook[head + 1],
                            Append(inputs, gold_codec_frames))

\* ToucanTTS.py lines 382-388 (inference mode): head k returns the columns of
\* codebook k
RECURSIVE AutoregressiveHeads(_, _, _, _)
AutoregressiveHeads(cfg, head, predicted_codec_frames, inputs) ==
    IF head = cfg.num_codebooks THEN [error |-> None, head_inputs |-> inputs]
    ELSE AutoregressiveHeads(cfg, head + 1,
                             predicted_codec_frames
                                \o Columns("predicted", head * cfg.codebook_dim,
                                           cfg.codebook_dim),
                             Append(inputs, predicted_codec_frames))

\* ToucanTTS.py lines 374-388
HierarchicalClassifier(cfg, is_inference) ==
    IF is_inference
    THEN AutoregressiveHeads(cfg, 0, decoded_speech(cfg), <<>>)
    ELSE LET chunks == split(gold_speech(cfg), SplitSize)
         IN  IF ~Stackable(chunks) THEN [error |-> "RuntimeError", head_inputs |-> <<>>]
             ELSE TeacherForcedHeads(cfg, chunks, 0, decoded_speech(cfg), <<>>)

\* InferenceToucanTTS.py lines 270-272: every codebook decoder is called with
\* the output of the decoder
CodebookDecoders(cfg) ==
    [error |-> None, head_inputs |-> [k \in 1..cfg.num_codebooks |-> decoded_speech(cfg)]]

\* lines 324-325 (224-225)
EffectiveLangIds(cfg, a) == IF cfg.lang_embs = <<>> THEN <<>> ELSE a.lang_ids

\* lines 327-330 (227-230): normalize(None) raises
NormalizeRaises(cfg, a) == cfg.utt_embed_dim # <<>> /\ a.utterance_embedding = <<>>

EffectiveEmbedding(cfg, a) ==
    IF cfg.utt_embed_dim = <<>> THEN <<>> ELSE <<normalize(a.utterance_embedding[1])>>

\* a call ended by an exception; raw holds the curves (predicted or given)
\* as they are before the overrides
Raised(exception) ==
    [error |-> exception, utterance_embedding |-> <<>>, lang_ids |-> <<>>,
     raw |-> <<>>, predicted_durations |-> <<>>, pitch_predictions |-> <<>>,
     energy_predictions |-> <<>>, upsampled |-> <<>>,
     gold_frames_per_codebook |-> <<>>, head_inputs |-> <<>>, caller |-> <<>>]

\* ToucanTTS._forward (ToucanTTS.py lines 312-417); d, p and e are what the
\* duration, pitch and energy predictors return
TrainingForward(cfg, a, d, p, e) ==
    IF NormalizeRaises(cfg, a) THEN Raised("AttributeError")
    ELSE LET predicted_durations ==
                 IF a.is_inference
                 THEN [i \in DOMAIN d |-> ZeroAtWordBoundary(a.text[i], d[i])]
                 ELSE d
             heads == HierarchicalClassifier(cfg, a.is_inference)
         IN  [error |-> heads.error,
              utterance_embedding |-> EffectiveEmbedding(cfg, a),
              lang_ids |-> EffectiveLangIds(cfg, a),
              raw |-> [durations |-> d, pitch |-> p, energy |-> e],
              predicted_durations |-> predicted_durations,
              pitch_predictions |-> Reals(p),
              energy_predictions |-> Reals(e),
              upsampled |-> length_regulator(IF a.is_inference THEN predicted_durations
                                             ELSE a.gold_durations[1]),
              gold_frames_per_codebook |->
                  IF a.is_inference THEN <<>> ELSE split(gold_speech(cfg), SplitSize),
              head_inputs |-> heads.head_inputs,
              caller |-> <<>>]

\* InferenceToucanTTS.py lines 242-250: the loop over the phoneme vectors
OverriddenDurations(a, durations) ==
    [i \in DOMAIN durations |->
        ScalePause(a.text[i], ZeroAtWordBoundary(a.text[i], durations[i]),
                   a.pause_duration_scaling_factor)]

\* InferenceToucanTTS.py lines 324-330: tensor.unsqueeze(0).to(text.device) is
\* a view of the caller's tensor when that is on the device of the text, and
\* a copy on the other device when it is not; a write through the view is a
\* write to the caller's tensor
SeenByCaller(a, given, written_to) ==
    IF given = <<>> THEN <<>>
    ELSE IF a.same_device THEN <<written_to>> ELSE given

\* the caller's three tensors as the call leaves them
WithCaller(result, durations, pitch, energy) ==
    [field \in DOMAIN result |->
        IF field = "caller"
        THEN <<[durations |-> durations, pitch |-> pitch, energy |-> energy]>>
        ELSE result[field]]

\* ToucanTTS._forward of the inference architecture (InferenceToucanTTS.py
\* lines 211-282), called by forward (lines 324-348)
InferenceForward(cfg, a, d, p, e) ==
    IF NormalizeRaises(cfg, a)
    THEN WithCaller(Raised("AttributeError"), a.gold_durations, a.gold_pitch, a.gold_energy)
    ELSE LET pitch == IF a.gold_pitch = <<>> THEN p ELSE a.gold_pitch[1]
             energy == IF a.gold_energy = <<>> THEN e ELSE a.gold_energy[1]
             durations == IF a.gold_durations = <<>> THEN d ELSE a.gold_durations[1]
             overridden == OverriddenDurations(a, durations)
             caller_durations == SeenByCaller(a, a.gold_durations, overridden)
             caller_pitch ==
                 SeenByCaller(a, a.gold_pitch,
                              [i \in DOMAIN pitch |-> ZeroIfUnvoiced(a.text[i], pitch[i])])
             caller_energy ==
                 SeenByCaller(a, a.gold_energy,
                              [i \in DOMAIN energy |-> ZeroIfNoPhoneme(a.text[i], energy[i])])
         IN  IF ~IsOne(a.duration_scaling_factor) /\ a.duration_scaling_factor[1] <= 0
             THEN WithCaller(Raised("AssertionError"),
                             caller_durations, caller_pitch, caller_energy)
             ELSE LET predicted_durations ==
                          IF IsOne(a.duration_scaling_factor) THEN overridden
                          ELSE [i \in DOMAIN overridden |->
                                   ScaleDuration(overridden[i], a.duration_scaling_factor)]
                      heads == CodebookDecoders(cfg)
                  IN  [error |-> heads.error,
                       utterance_embedding |-> EffectiveEmbedding(cfg, a),
                       lang_ids |-> EffectiveLangIds(cfg, a),
                       raw |-> [durations |-> durations, pitch |-> pitch,
                                energy |-> energy],
                       predicted_durations |-> predicted_durations,
                       pitch_predictions |->
                           scale_variance([i \in DOMAIN pitch |->
                                              ZeroIfUnvoiced(a.text[i], pitch[i])],
                                          a.pitch_variance_scale),
                       energy_predictions |->
                           scale_variance([i \in DOMAIN energy |->
                                              ZeroIfNoPhoneme(a.text[i], energy[i])],
                                          a.energy_variance_scale),
                       upsampled |-> length_regulator(predicted_durations),
                       gold_frames_per_codebook |-> <<>>,
                       head_inputs |-> heads.head_inputs,
                       caller |-> <<[durations |-> caller_durations,
                                     pitch |-> caller_pitch,
                                     energy |-> caller_energy]>>]

\* the constructor arguments of a small model with both conditioning paths
DefaultConfig ==
    [attention_dimension |-> 2, utt_embed_dim |-> <<2>>, lang_embs |-> <<3>>,
     num_codebooks |-> 1, codebook_dim |-> 8, codebook_size |-> 1024]

\* codebook_dim: the default and a narrower codebook
CodebookDims == {4, 8}

\* codebook_size: the default and a smaller codebook
CodebookSizes == {16, 1024}

\* a Python dict display: of two items with the same key the later one stays
DictDisplay(items) ==
    [key \in {items[i][1] : i \in DOMAIN items} |->
        items[CHOOSE i \in DOMAIN items :
                 /\ items[i][1] = key
                 /\ \A j \in DOMAIN items : items[j][1] = key => j <= i][2]]

\* ToucanTTS.py lines 101-145: self.config, for the arguments of the model
self_config(cfg) ==
    DictDisplay(<<
        <<"attention_dimension", cfg.attention_dimension>>,
        <<"utt_embed_dim", cfg.utt_embed_dim>>,
        <<"lang_embs", cfg.lang_embs>>,
        <<"num_codebooks", cfg.num_codebooks>>,
        <<"codebook_dim", cfg.codebook_dim>>,
        <<"codebook_dim", cfg.codebook_size>> >>)

\* ToucanTTS(**dict): an argument without an item gets its default
\* (ToucanTTS.py lines 42-98)
FromDict(dict) ==
    [argument \in DOMAIN DefaultConfig |->
        IF argument \in DOMAIN dict THEN dict[argument] ELSE DefaultConfig[argument]]

\* a curve holding v for every token of text
Flat(text, v) == [i \in DOMAIN text |-> v]

\* a call for text with every optional argument given and no scaling
DefaultArgs(text) ==
    [is_inference |-> TRUE,
     text |-> text,
     utterance_embedding |-> <<[direction |-> "a", norm |-> 2]>>,
     lang_ids |-> <<1>>,
     gold_durations |-> <<Flat(text, 1)>>,
     gold_pitch |-> <<Flat(text, 2)>>,
     gold_energy |-> <<Flat(text, 2)>>,
     duration_scaling_factor |-> Real(1, 1),
     pitch_variance_scale |-> Real(1, 1),
     energy_variance_scale |-> Real(1, 1),
     pause_duration_scaling_factor |-> Real(1, 1),
     same_device |-> TRUE]

\* the training architecture is called in both modes, the inference
\* architecture has one
Modes(arch) == IF arch = "training" THEN BOOLEAN ELSE {TRUE}

\* calls of models with every number and width of codebooks
HeadCalls ==
    /\ architecture \in {"training", "inference"}
    /\ \E n \in 1..MaxCodebooks, dim \in CodebookDims, size \in CodebookSizes :
          config = [DefaultConfig EXCEPT !.num_codebooks = n, !.codebook_dim = dim,
                                         !.codebook_size = size]
    /\ \E inference_mode \in Modes(architecture) :
          args = [DefaultArgs(<<Vowel>>) EXCEPT !.is_inference = inference_mode]

\* calls that differ in the text, in the durations and in their scaling
DurationCalls ==
    /\ config = DefaultConfig
    /\ \/ /\ architecture = "training"
          /\ \E text \in Texts(1) \cup {<<Vowel, WordBoundary>>}, inference_mode \in BOOLEAN :
                args = [DefaultArgs(text) EXCEPT !.is_inference = inference_mode]
       \/ /\ architecture = "inference"
          /\ \E text \in Texts(MaxTokens), pause \in ScaleFactors, factor \in ScaleFactors :
                \E gold \in {<<>>, <<Flat(text, MaxDur)>>} :
                   args = [DefaultArgs(text) EXCEPT
                              !.gold_durations = gold,
                              !.pause_duration_scaling_factor = pause,
                              !.duration_scaling_factor = factor]

\* calls of the inference architecture that differ in the text, in one of the
\* two curves (predicted or given) and in its scaling
CurveCalls ==
    /\ architecture = "inference"
    /\ config = DefaultConfig
    /\ \E text \in Texts(MaxTokens), scale \in Scales :
          \E gold \in {<<>>} \cup {<<curve>> : curve \in [DOMAIN text -> CurveValues]} :
             \/ args = [DefaultArgs(text) EXCEPT !.gold_pitch = gold,
                                                 !.pitch_variance_scale = scale]
             \/ args = [DefaultArgs(text) EXCEPT !.gold_energy = gold,
                                                 !.energy_variance_scale = scale]

\* models with and without the two conditioning paths, called with and without
\* an utterance embedding and a language id
ConditioningCalls ==
    /\ architecture \in {"training", "inference"}
    /\ \E utt \in {<<>>, <<2>>}, langs \in {<<>>, <<3>>} :
          config = [DefaultConfig EXCEPT !.utt_embed_dim = utt, !.lang_embs = langs]
    /\ \E inference_mode \in Modes(architecture) :
          \E embedding \in {<<>>} \cup {<<e>> : e \in Embeddings},
             lang \in {<<>>, <<1>>, <<2>>} :
             args = [DefaultArgs(<<Vowel>>) EXCEPT !.is_inference = inference_mode,
                                                   !.utterance_embedding = embedding,
                                                   !.lang_ids = lang]

\* calls of the inference architecture with the three curves given, on the
\* device of the text or on another one
CallerDataCalls ==
    /\ architecture = "inference"
    /\ config = DefaultConfig
    /\ \E text \in Texts(MaxTokens), pause \in Scales, scale \in Scales,
          device \in BOOLEAN :
          args = [DefaultArgs(text) EXCEPT !.gold_durations = <<Flat(text, MaxDur)>>,
                                           !.pause_duration_scaling_factor = pause,
                                           !.pitch_variance_scale = scale,
                                           !.energy_variance_scale = scale,
                                           !.same_device = device]

\* no call of train_loop is looked at
NoTraining ==
    /\ steps_requested = 1
    /\ steps_per_checkpoint = 1
    /\ datasets = <<1>>
    /\ batch_size = 1
    /\ resume = FALSE
    /\ fine_tune = FALSE
    /\ path_to_checkpoint = NoPath
    /\ save_directory = PreviousRun(0, steps_per_checkpoint)
    /\ losses = <<>>
    /\ mode = ModeOf(TRUE)
    /\ Fresh
    /\ NeverStopped

InitNet ==
    /\ HeadCalls \/ DurationCalls \/ CurveCalls \/ ConditioningCalls \/ CallerDataCalls
    /\ built = "no"
    /\ stored = <<>>
    /\ returned = <<>>
    /\ NoTraining

\* __init__: the inference architecture adds utt_embed_dim to codebook_dim
\* (InferenceToucanTTS.py line 205); the training architecture passes it on
Construct ==
    /\ built = "no"
    /\ built' = IF architecture = "inference" /\ config.utt_embed_dim = <<>>
                THEN "TypeError" ELSE "yes"
    /\ stored' = IF architecture = "training" THEN <<self_config(config)>> ELSE <<>>
    /\ UNCHANGED <<architecture, config, args, returned, loop_vars, stop_vars>>

\* what a predictor can return for the text of the call; the inference
\* architecture calls a predictor only when the curve is not given
\* (InferenceToucanTTS.py lines 237-239)
Predictions(given, values) ==
    IF architecture = "inference" /\ given # <<>>
    THEN {given[1]}
    ELSE [DOMAIN args.text -> values]

\* one call of _forward
Forward ==
    /\ built = "yes"
    /\ returned = <<>>
    /\ \E d \in Predictions(args.gold_durations, DurationValues),
          p \in Predictions(args.gold_pitch, CurveValues),
          e \in Predictions(args.gold_energy, CurveValues) :
          returned' = <<IF architecture = "training"
                        THEN TrainingForward(config, args, d, p, e)
                        ELSE InferenceForward(config, args, d, p, e)>>
    /\ UNCHANGED <<architecture, config, built, stored, args, loop_vars, stop_vars>>

NextNet == Construct \/ Forward

SpecNet == InitNet /\ [][NextNet]_vars

(***************************************************************************)
(* _scale_variance on its own (InferenceToucanTTS.py lines 365-375): args  *)
(* holds the curve and the scale of one call, returned what it returns.    *)
(***************************************************************************)
\* the entries of a curve
CurveEntries == CurveValues \cup {1, 6}

InitScale ==
    /\ architecture = "inference"
    /\ config = <<>>
    /\ built = "yes"
    /\ stored = <<>>
    /\ \E sequence \in UNION {[1..k -> CurveEntries] : k \in 1..MaxTokens},
          scale \in ScaleFactors :
          args = [sequence |-> sequence, scale |-> scale]
    /\ returned = <<>>
    /\ NoTraining

ScaleVariance ==
    /\ returned = <<>>
    /\ returned' = <<scale_variance(args.sequence, args.scale)>>
    /\ UNCHANGED <<architecture, config, built, stored, args, loop_vars, stop_vars>>

NextScale == ScaleVariance

SpecScale == InitScale /\ [][NextScale]_vars

(***************************************************************************)
(* Properties.                                                             *)
(***************************************************************************)
Count(seq, t) == Cardinality({i \in 1..Len(seq) : seq[i] = t})
Tasks == 1..Len(datasets)
\* the smallest multiple of c that is >= s
NextBoundary(s, c) == ((s + c - 1) \div c) * c
Terminated == pc \in {"done", "returned", "crashed"}

C2_StopsAtBoundary ==
    (check_dict = <<>> /\ Terminated) =>
        /\ pc = "done"
        /\ step_counter - 1 = NextBoundary(steps_requested, steps_per_checkpoint)
        /\ written # <<>>
        /\ written[1].file = step_counter - 1

\* C3: the set-up loads the most recent checkpoint of the save directory when
\* resume is set and the given path otherwise; the model is restored from it,
\* and optimizer, scheduler and step counter are restored unless fine_tune is
\* set, in which case they stay fresh.
C3_Restore ==
    [][pc = "setup" =>
        LET dir == DOMAIN save_directory
            expected ==
                IF resume
                THEN IF dir = {} THEN <<>>
                     ELSE <<save_directory[CHOOSE n \in dir : \A k \in dir : k <= n]>>
                ELSE IF path_to_checkpoint = NoPath THEN <<>>
                     ELSE <<torch_load(path_to_checkpoint, save_directory)>>
        IN  /\ check_dict' = expected
            /\ expected # <<>> => net' = expected[1].model
            /\ (expected # <<>> /\ ~fine_tune) =>
                  /\ optimizer' = expected[1].optimizer
                  /\ scheduler' = expected[1].scheduler
                  /\ steps_run_previously' = expected[1].step_counter
            /\ (expected = <<>> \/ fine_tune) =>
                  /\ optimizer' = 0
                  /\ scheduler' = 0
                  /\ steps_run_previously' = 0
            /\ expected = <<>> => net' = net]_vars

C3_Witness ==
    /\ pc = "loop"
    /\ resume
    /\ fine_tune
    /\ check_dict # <<>>
    /\ check_dict[1].step_counter > 0
    /\ net = check_dict[1].model
    /\ optimizer = 0
    /\ step_counter = 0

\* C4 as stated: when the step counter of the checkpoint loaded (without
\* fine_tune) already reaches the step target, the run executes no training
\* step: no optimizer update and no checkpoint write.
C4_NoStepWhenReached ==
    (/\ check_dict # <<>>
     /\ ~fine_tune
     /\ check_dict[1].step_counter >= steps_requested)
        => (optimizer = check_dict[1].optimizer /\ written = <<>> /\ pc # "checkpoint")

\* C5: an iteration (one whose optimizer update was applied) writes a
\* checkpoint file exactly if its index is a positive multiple of
\* steps_per_checkpoint; the file is checkpoint_<index>.pt and holds model,
\* optimizer, scheduler, step_counter, default_emb and config, with the live
\* states and step_counter = index; no other action touches the directory.
C5_CheckpointSteps ==
    [][/\ pc = "checkpoint" =>
            /\ written' # <<>> <=>
                  (step_counter % steps_per_checkpoint = 0 /\ step_counter > 0)
            /\ written' # <<>> =>
                  /\ written'[1].file = step_counter
                  /\ written'[1].contents =
                        [model |-> net, optimizer |-> optimizer,
                         scheduler |-> scheduler, step_counter |-> step_counter,
                         default_emb |-> "default_embedding", config |-> "net.config"]
                  /\ step_counter \in DOMAIN save_directory' =>
                        save_directory'[step_counter] = written'[1].contents
            /\ written' = <<>> => save_directory' = save_directory
       /\ pc # "checkpoint" =>
            /\ written' = <<>> \/ written' = written
            /\ save_directory' = save_directory]_vars

C5_Witness ==
    /\ pc = "loop"
    /\ written # <<>>
    /\ written[1].file = 2 * steps_per_checkpoint
    /\ written[1].file \in DOMAIN save_directory
    /\ steps_per_checkpoint > 1

\* C6 as stated: an iteration that writes a checkpoint averages the recent
\* checkpoints into best.pt and reloads it into the live model exactly if its
\* index lies in the final fifth of the total steps.
C6_AveragingInFinalFifth ==
    [][(pc = "checkpoint" /\ written' # <<>>) =>
          ((5 * step_counter > 4 * steps) <=>
              /\ checkpoint_paths' # <<>>
              /\ best' # best
              /\ net' = best'[1].model)]_vars

C8_NonFiniteLeftOut ==
    (pc = "checkpoint" /\ losses # <<>>) =>
        train_loss.val = Fin(Cardinality({i \in 1..5 : losses[i][1] = "fin"}))

\* C9 as stated: whatever combination of NaN and finite values the five
\* component losses take, the iteration is not ended by an exception: the
\* backward pass and the optimizer update run.
C9_NaNNeverAborts ==
    (losses # <<>> /\ \A i \in 1..5 : losses[i][1] # "inf") => error # "AttributeError"

\* C10 as stated: when the progress plot fails, whatever the error, the run goes
\* on: the accumulators are reset, the averaging runs if it is due, and the
\* loop continues.
C10_PlotFailureNotFatal ==
    plot \in {"IndexError", "OtherError"} =>
        /\ pc \in {"loop", "done"}
        /\ losses_total = <<>>
        /\ InFinalFifth(written[1].file, steps) => checkpoint_paths # <<>>

\* C11: a draw from an exhausted iterator re-creates the iterator of that task
\* only and draws from the new one in the same step: after the step every task
\* drawn k times stands k batches further in its own cycle through its
\* dataset, a task that was not drawn stands where it stood, the step still
\* has its batch_size batches, and no exception comes from the exhaustion.
C11_ExhaustedOnlyRecreated ==
    [][(pc = "loop" /\ pc' \in {"checkpoint", "crashed"}) =>
          /\ Len(batches') = batch_size
          /\ error' \in {None, "AttributeError"}
          /\ \A t \in Tasks :
                LET k == Count(batches', t)
                    r == train_iters[t]
                    d == datasets[t]
                IN  train_iters'[t] =
                        IF k <= r THEN r - k ELSE (d - ((k - r) % d)) % d]_vars

C11_Witness ==
    /\ pc = "checkpoint"
    /\ step_counter = 0
    /\ datasets = <<1, 2>>
    /\ batches = <<1, 2, 1>>
    /\ train_iters = <<0, 1>>

\* what a call of train_loop has got past its set-up
Running == pc \in {"loop", "checkpoint", "done"}

C13_CompleteFileNeverRewritten ==
    torn # <<>> => ~torn[1].existed

\* C20 as stated: within a step the parameters of the live model are changed
\* by the one optimizer update that follows the summed loss and by nothing
\* else: the rest of the iteration (lines 173-233) leaves them as they are.
C20_OnlyOptimizerChangesParameters ==
    [][/\ (pc = "loop" /\ pc' = "checkpoint") => net' = net + 1
       /\ pc = "checkpoint" => net' = net]_vars

\* C20 amended: within a step the optimizer updates the parameters of the live
\* model once (not at all when the backward pass raises), after the losses
\* are summed; a checkpoint step in the final fifth that gets past its plot
\* then replaces them by the averaged parameters of best.pt; nothing else in
\* a step changes them.
C20_OptimizerAndAveraging ==
    [][/\ (pc = "loop" /\ pc' = "checkpoint") => net' = net + 1
       /\ (pc = "loop" /\ pc' \in {"crashed", "done"}) => net' = net
       /\ pc = "checkpoint" =>
            IF written' # <<>> /\ 5 * step_counter > 4 * steps /\ pc' = "loop"
            THEN best' # <<>> /\ net' = best'[1].model
            ELSE net' = net]_vars

C20_Witness ==
    /\ pc = "loop"
    /\ written # <<>>
    /\ Len(checkpoint_paths) = 2
    /\ best # <<>>
    /\ net = best[1].model
    /\ net < written[1].contents.model

\* a call of _forward that returned
Returned == returned # <<>> /\ returned[1].error = None

\* C14 as stated: in ToucanTTS._forward the input of classifier head k is the
\* decoder output followed by exactly the codebooks 0..k-1 in increasing
\* order, the gold ones in training mode and the ones predicted by the heads
\* 0..k-1 of the same call in inference mode, for every head k.
C14_HeadInputs ==
    (architecture = "training" /\ returned # <<>>
        /\ returned[1].error # "AttributeError") =>
        /\ Len(returned[1].head_inputs) = config.num_codebooks
        /\ \A k \in 0..(config.num_codebooks - 1) :
              returned[1].head_inputs[k + 1] =
                  decoded_speech(config)
                      \o Columns(IF args.is_inference THEN "predicted" ELSE "gold",
                                 0, k * config.codebook_dim)

\* C15 as stated: in the inference architecture the predictor of codebook k
\* is given the decoder output and the predicted codebooks 0..k-1, as in the
\* inference mode of the training architecture.
C15_InferenceChain ==
    (architecture = "inference" /\ Returned) =>
        /\ Len(returned[1].head_inputs) = config.num_codebooks
        /\ \A k \in 0..(config.num_codebooks - 1) :
              returned[1].head_inputs[k + 1] =
                  decoded_speech(config)
                      \o Columns("predicted", 0, k * config.codebook_dim)

\* C16 as stated: in every path (ToucanTTS._forward in training mode and in
\* inference mode, and the inference architecture) the predicted duration of
\* a token flagged word-boundary is 0.
C16_WordBoundaryZeroInEveryPath ==
    Returned =>
        \A i \in DOMAIN args.text :
            args.text[i]["word-boundary"] = 1 => returned[1].predicted_durations[i] = 0

\* C16 amended: in the inference mode of ToucanTTS._forward and in the
\* inference architecture the duration of a token flagged word-boundary is
\* 0, predicted or given and whatever the scaling factors, and the token has
\* no frame in the upsampled sequence; in training mode the predicted
\* durations are returned as the predictor gave them and the upsampled
\* sequence is built from the gold durations.
C16_WordBoundaryZeroAtInference ==
    Returned =>
        IF architecture = "inference" \/ args.is_inference
        THEN /\ \A i \in DOMAIN args.text :
                   args.text[i]["word-boundary"] = 1 =>
                       /\ returned[1].predicted_durations[i] = 0
                       /\ \A j \in DOMAIN returned[1].upsampled :
                             returned[1].upsampled[j] # i
             /\ \A i \in DOMAIN args.text :
                   returned[1].predicted_durations[i] >= 0 =>
                       Cardinality({j \in DOMAIN returned[1].upsampled :
                                       returned[1].upsampled[j] = i})
                           = returned[1].predicted_durations[i]
        ELSE /\ returned[1].predicted_durations = returned[1].raw.durations
             /\ \A i \in DOMAIN args.text :
                   Cardinality({j \in DOMAIN returned[1].upsampled :
                                   returned[1].upsampled[j] = i})
                       = args.gold_durations[1][i]

C16_Witness ==
    /\ architecture = "training"
    /\ Returned
    /\ args.is_inference
    /\ args.text = <<Vowel, WordBoundary>>
    /\ returned[1].raw.durations = <<1, 2>>
    /\ returned[1].predicted_durations = <<1, 0>>
    /\ returned[1].upsampled = <<1>>

\* C17 as stated: in the inference architecture the returned pitch of every
\* token flagged not voiced is exactly 0 and the returned energy of every
\* token flagged non-phoneme is exactly 0, for every scale and whether the
\* curve was predicted or given.
C17_UnvoicedPitchZero ==
    (architecture = "inference" /\ Returned) =>
        \A i \in DOMAIN args.text :
            /\ args.text[i]["voiced"] = 0 => IsZero(returned[1].pitch_predictions[i])
            /\ args.text[i]["phoneme"] = 0 => IsZero(returned[1].energy_predictions[i])

\* C18 as stated: a model without utt_embed_dim or without lang_embs can be
\* constructed in both architectures, and no component of it is given the
\* utterance embedding (the language id) of a call.
C18_ConditioningDisabled ==
    /\ (config.utt_embed_dim = <<>> \/ config.lang_embs = <<>>) => built # "TypeError"
    /\ returned # <<>> =>
          /\ config.utt_embed_dim = <<>> => returned[1].utterance_embedding = <<>>
          /\ config.lang_embs = <<>> => returned[1].lang_ids = <<>>

\* C19 as stated: a call without an utterance embedding does not raise and
\* no component is given an embedding, whatever the model; an embedding that
\* is given has unit L2 norm when the components get it.
C19_NoEmbeddingNoRaise ==
    returned # <<>> =>
        /\ args.utterance_embedding = <<>> =>
              (returned[1].error = None /\ returned[1].utterance_embedding = <<>>)
        /\ returned[1].utterance_embedding # <<>> =>
              returned[1].utterance_embedding[1].norm = 1

\* the steps from..to in increasing order
StepsFrom(from, to) == [i \in 1..(to - from + 1) |-> from + i - 1]

\* the checkpoint steps of this call of train_loop before step n
EarlierCheckpointSteps(n) ==
    {m \in 1..(n - 1) : m >= steps_run_previously /\ m % steps_per_checkpoint = 0}

\* C21: at a checkpoint step the accumulators hold exactly the losses of the
\* steps executed since the previous checkpoint step of this call (since its
\* first step when there is none), so never nothing, and when a checkpoint
\* block has completed the accumulators are empty as the next step starts.
C21_AccumulatorsSinceLastCheckpoint ==
    /\ (pc = "checkpoint" /\ step_counter % steps_per_checkpoint = 0 /\ step_counter # 0) =>
          /\ losses_total # <<>>
          /\ losses_total =
                StepsFrom(IF EarlierCheckpointSteps(step_counter) = {}
                          THEN steps_run_previously
                          ELSE 1 + CHOOSE m \in EarlierCheckpointSteps(step_counter) :
                                      \A k \in EarlierCheckpointSteps(step_counter) : k <= m,
                          step_counter)
    /\ (pc = "loop" /\ written # <<>>) => losses_total = <<>>

C21_Witness ==
    /\ pc = "checkpoint"
    /\ steps_per_checkpoint = 2
    /\ steps_run_previously = 0
    /\ step_counter = 4
    /\ losses_total = <<3, 4>>

\* C22 as stated: for every num_codebooks N and codebook_dim D head k is
\* built for attention_dimension + k*D inputs, strictly increasing in k, and
\* a training-mode forward splits the gold frames into exactly N chunks of
\* width D and feeds head k a tensor of exactly the width it was built for.
C22_ChunksMatchHeads ==
    (architecture = "training" /\ returned # <<>> /\ ~args.is_inference
        /\ returned[1].error # "AttributeError") =>
        /\ \A k \in 0..(config.num_codebooks - 2) :
              HeadWidth(config, k) < HeadWidth(config, k + 1)
        /\ Len(returned[1].gold_frames_per_codebook) = config.num_codebooks
        /\ \A i \in DOMAIN returned[1].gold_frames_per_codebook :
              Len(returned[1].gold_frames_per_codebook[i]) = config.codebook_dim
        /\ Len(returned[1].head_inputs) = config.num_codebooks
        /\ \A k \in 0..(config.num_codebooks - 1) :
              Len(returned[1].head_inputs[k + 1]) = HeadWidth(config, k)

\* a/b equals c/d, neither being NaN
SameReal(x, y) == x[2] # 0 /\ y[2] # 0 /\ x[1] * y[2] = y[1] * x[2]

\* the sum of the fractions curve[i], i in indices
RECURSIVE SumOfReals(_, _)
SumOfReals(curve, indices) ==
    IF indices = {} THEN Real(0, 1)
    ELSE LET i == CHOOSE j \in indices : TRUE
             rest == SumOfReals(curve, indices \ {i})
         IN  Real(curve[i][1] * rest[2] + rest[1] * curve[i][2], curve[i][2] * rest[2])

\* the entries of the curve of this call that are not zero
NonZero == {i \in DOMAIN args.sequence : args.sequence[i] # 0}

\* the mean of the entries that were non-zero is as in the input, and the
\* deviation of each of them from it is the input's multiplied by the scale
MeanKeptDeviationScaled ==
    LET c == Cardinality(NonZero)
        S == SumOf(args.sequence, NonZero)
    IN  /\ SameReal(SumOfReals(returned[1], NonZero), Real(S, 1))
        /\ \A i \in NonZero :
              /\ returned[1][i][2] # 0
              /\ (returned[1][i][1] * c - S * returned[1][i][2]) * args.scale[2]
                    = args.scale[1] * (args.sequence[i] * c - S) * returned[1][i][2]

\* no entry that was non-zero is scaled to a negative value
NothingClipped ==
    \A i \in NonZero :
        Scaled(args.sequence[i], Cardinality(NonZero), SumOf(args.sequence, NonZero),
               args.scale)[1] >= 0

\* C23 as stated: for every scale and every curve the entries that were
\* non-zero keep their mean and have their deviation from it multiplied by
\* the scale.
C23_MeanKeptForEveryCurve ==
    (returned # <<>> /\ NonZero # {}) => MeanKeptDeviationScaled

\* C23 amended: the same for scale 1.0, and for every other scale whenever
\* no entry that was non-zero is scaled to a negative value; such an entry
\* is returned as 0.
C23_MeanKeptUnlessClipped ==
    (returned # <<>> /\ NonZero # {}) =>
        /\ (IsOne(args.scale) \/ NothingClipped) => MeanKeptDeviationScaled
        /\ ~IsOne(args.scale) =>
              \A i \in NonZero :
                  Scaled(args.sequence[i], Cardinality(NonZero),
                         SumOf(args.sequence, NonZero), args.scale)[1] < 0
                      => IsZero(returned[1][i])

C23_Witness ==
    /\ args = [sequence |-> <<1, 2>>, scale |-> Real(2, 1)]
    /\ returned = <<<<Real(1, 2), Real(5, 2)>>>>

\* C24: with scale 1.0 the returned curve is the input curve, element for
\* element, whatever the curve.
C24_ScaleOneIsIdentity ==
    (returned # <<>> /\ IsOne(args.scale)) =>
        /\ DOMAIN returned[1] = DOMAIN args.sequence
        /\ \A i \in DOMAIN args.sequence :
              SameReal(returned[1][i], Real(args.sequence[i], 1))

C24_Witness ==
    /\ args = [sequence |-> <<0 - 1, 0>>, scale |-> Real(1, 1)]
    /\ returned = <<<<Real(0 - 1, 1), Real(0, 1)>>>>

\* C25 as stated: for every scale and every curve each entry of the
\* returned curve is a number that is not negative.
C25_NeverNegative ==
    returned # <<>> =>
        \A i \in DOMAIN returned[1] : returned[1][i][2] # 0 /\ returned[1][i][1] >= 0

\* C26 as stated: in the inference architecture every duration handed to the
\* length regulator by a call that does not fail is a non-negative integer:
\* a duration_scaling_factor other than 1.0 that is not positive ends the
\* call in the assertion, and the pause scaling never yields a negative
\* duration.
C26_DurationsNonNegative ==
    (architecture = "inference" /\ returned # <<>>) =>
        /\ (~IsOne(args.duration_scaling_factor) /\ args.duration_scaling_factor[1] <= 0
                /\ returned[1].error # "AttributeError")
              => returned[1].error = "AssertionError"
        /\ returned[1].error = None =>
              \A i \in DOMAIN args.text : returned[1].predicted_durations[i] \in Nat

\* train_loop restored the training state from a checkpoint
Resumed == check_dict # <<>> /\ ~fine_tune /\ pc # "setup"

\* the first optimizer update since the checkpoint was loaded has been made
FirstUpdateMade == optimizer = check_dict[1].optimizer + 1

\* C27 as stated: after resuming with fine_tune disabled the first step
\* executed has the step index stored in the checkpoint, and that step
\* writes the checkpoint file of that index again.
C27_FirstStepRewritesCheckpoint ==
    Resumed =>
        /\ (pc = "checkpoint" /\ FirstUpdateMade) =>
              step_counter = check_dict[1].step_counter
        /\ (pc = "loop" /\ FirstUpdateMade) =>
              /\ step_counter = check_dict[1].step_counter + 1
              /\ written # <<>>
              /\ written[1].file = check_dict[1].step_counter

\* C27 amended: the first step executed after resuming with fine_tune
\* disabled has the step index stored in the checkpoint; it writes the
\* checkpoint file of that index again when the index is a positive
\* multiple of the steps_per_checkpoint of the resumed call, and writes no
\* file otherwise.
C27_FirstStepRewritesAtMultiple ==
    Resumed =>
        /\ (pc = "checkpoint" /\ FirstUpdateMade) =>
              step_counter = check_dict[1].step_counter
        /\ (pc = "loop" /\ FirstUpdateMade) =>
              /\ step_counter = check_dict[1].step_counter + 1
              /\ IF check_dict[1].step_counter % steps_per_checkpoint = 0
                    /\ check_dict[1].step_counter > 0
                 THEN /\ written # <<>>
                      /\ written[1].file = check_dict[1].step_counter
                      /\ written[1].file \in DOMAIN save_directory
                 ELSE written = <<>>

C27_Witness ==
    /\ Resumed
    /\ resume
    /\ pc = "loop"
    /\ FirstUpdateMade
    /\ steps_per_checkpoint = 2
    /\ check_dict[1].step_counter = 4
    /\ step_counter = 5
    /\ written # <<>>
    /\ written[1].file = 4

\* C28 as stated: self.config holds, for every constructor argument, an item
\* under the argument's name with the value the model was built with, so a
\* model built from the stored config has the same num_codebooks,
\* codebook_dim and codebook_size.
C28_ConfigRoundTrip ==
    (architecture = "training" /\ built = "yes") =>
        /\ \A argument \in DOMAIN config :
              /\ argument \in DOMAIN stored[1]
              /\ stored[1][argument] = config[argument]
        /\ FromDict(stored[1]).num_codebooks = config.num_codebooks
        /\ FromDict(stored[1]).codebook_dim = config.codebook_dim
        /\ FromDict(stored[1]).codebook_size = config.codebook_size

\* C29 as stated: a call of the inference architecture's forward leaves the
\* durations, pitch and energy the caller supplied as they were.
C29_CallerCurvesUnchanged ==
    (architecture = "inference" /\ returned # <<>>) =>
        /\ returned[1].caller[1].durations = args.gold_durations
        /\ returned[1].caller[1].pitch = args.gold_pitch
        /\ returned[1].caller[1].energy = args.gold_energy

\* C30: every forward pass of a training step runs with the model in
\* training mode, every checkpoint is taken with the model in evaluation
\* mode, and whenever the loop is about to start a step (after the setup and
\* after every checkpoint block that completed) the model is in training
\* mode.
C30_ModeFollowsPhase ==
    /\ mode.step # <<>> => mode.step[1]
    /\ mode.snapshot # <<>> => ~mode.snapshot[1]
    /\ pc \in {"loop", "checkpoint", "done"} => mode.training
    /\ written # <<>> => mode.snapshot # <<>>

C30_Witness ==
    /\ pc = "loop"
    /\ written # <<>>
    /\ plot = "IndexError"
    /\ step_counter < steps
    /\ mode = [training |-> TRUE, step |-> <<TRUE>>, snapshot |-> <<FALSE>>]

====
